---- MODULE Spec2Model ----
(***************************************************************************)
(* Protocol negotiation of rsync's compat.c: check_sub_protocol() and      *)
(* setup_protocol().  Every process of a session runs setup_protocol()     *)
(* once; its globals are the fields of proc[p], its f_in is the queue      *)
(* chan[p] and its f_out is the queue of its peer.                         *)
(***************************************************************************)
EXTENDS Integers, Sequences, FiniteSets, TLC

VARIABLES proc, chan

vars == <<proc, chan>>

Procs == {"A", "B"}

Peer(p) == IF p = "A" THEN "B" ELSE "A"

(***************************************************************************)
(* Constants of rsync.h and errcode.h.  The advisory of lines 133-136 and   *)
(* the verbose report of lines 123-126 print and change nothing: they are  *)
(* left out.                                                               *)
(***************************************************************************)
PROTOCOL_VERSION == 30

SUBPROTOCOL_VERSION == 3

MIN_PROTOCOL_VERSION == 20

MAX_PROTOCOL_VERSION == 40

PTR_EXTRA_LEN == 2

RERR_PROTOCOL == "RERR_PROTOCOL"

MATCHFLG_NO_PREFIXES == "MATCHFLG_NO_PREFIXES"

MATCHFLG_DIRECTORY == "MATCHFLG_DIRECTORY"

MATCHFLG_PERISHABLE == "MATCHFLG_PERISHABLE"

\* The default of max_delete: no limit was given.
INT_MIN == (0 - 2147483647) - 1

(***************************************************************************)
(* Bounds of the model.                                                    *)
(***************************************************************************)
MaxHintLen == 4

(***************************************************************************)
(* C strings: a char* is NULL or points to a sequence of characters.       *)
(***************************************************************************)
NULL == [isnull |-> TRUE, chars |-> <<>>]

Str(s) == [isnull |-> FALSE, chars |-> s]

Digits == {"0", "1", "2", "3", "4", "5", "6", "7", "8", "9"}

DigitVal(ch) ==
    CASE ch = "0" -> 0 [] ch = "1" -> 1 [] ch = "2" -> 2 [] ch = "3" -> 3
      [] ch = "4" -> 4 [] ch = "5" -> 5 [] ch = "6" -> 6 [] ch = "7" -> 7
      [] ch = "8" -> 8 [] ch = "9" -> 9

IsSpace(ch) == ch \in {" ", "\t", "\n", "\r", "\f"}

RECURSIVE SkipSpace(_)
SkipSpace(s) ==
    IF s # <<>> /\ IsSpace(Head(s)) THEN SkipSpace(Tail(s)) ELSE s

RECURSIVE ParseDigits(_, _)
ParseDigits(s, acc) ==
    IF s = <<>> \/ Head(s) \notin Digits
    THEN acc
    ELSE ParseDigits(Tail(s), acc * 10 + DigitVal(Head(s)))

\* atoi(3): leading white space, an optional sign, then the longest run of
\* digits; 0 when there is none.
Atoi(s) ==
    LET t == SkipSpace(s) IN
    IF t = <<>> THEN 0
    ELSE IF Head(t) = "-" THEN 0 - ParseDigits(Tail(t), 0)
    ELSE IF Head(t) = "+" THEN ParseDigits(Tail(t), 0)
    ELSE ParseDigits(t, 0)

\* strchr(3): the index of the first ch in s, 0 for a NULL result.
Strchr(s, ch) ==
    IF \E i \in 1..Len(s) : s[i] = ch
    THEN CHOOSE i \in 1..Len(s) : s[i] = ch /\ \A j \in 1..(i - 1) : s[j] # ch
    ELSE 0

\* The string that starts right after index i (dot+1).
After(s, i) == SubSeq(s, i + 1, Len(s))

(***************************************************************************)
(* The globals of one process before setup_protocol() is entered, with the *)
(* defaults of an rsync started without options.  The fields entry_version,*)
(* entry_remote, entry_delete, sub_version, written and reads are history  *)
(* variables: the values of protocol_version, remote_protocol and the three *)
(* delete timing flags and checksum_seed at entry, the value of            *)
(* protocol_version after the sub-protocol step, and the integers written  *)
(* to f_out and read from f_in so far; our_sub is the local of that name   *)
(* in check_sub_protocol(), kept once that function has run.               *)
(***************************************************************************)
Globals ==
    [pc |-> "start",
     am_server |-> FALSE, am_sender |-> FALSE, local_server |-> FALSE,
     read_batch |-> FALSE, shell_cmd |-> NULL,
     protocol_version |-> PROTOCOL_VERSION, remote_protocol |-> 0,
     file_extra_cnt |-> 0, inc_recurse |-> 0,
     uid_ndx |-> 0, gid_ndx |-> 0, acls_ndx |-> 0, xattrs_ndx |-> 0,
     preserve_uid |-> FALSE, preserve_gid |-> FALSE, preserve_acls |-> FALSE,
     preserve_xattrs |-> FALSE, preserve_hard_links |-> FALSE,
     max_delete |-> INT_MIN, fuzzy_basis |-> FALSE, basis_dir_cnt |-> 0,
     inplace |-> FALSE, prune_empty_dirs |-> FALSE,
     delete_mode |-> FALSE, delete_before |-> 0, delete_during |-> 0,
     delete_after |-> 0,
     recurse |-> FALSE, allow_inc_recurse |-> TRUE, delay_updates |-> FALSE,
     relative_paths |-> FALSE, implied_dirs |-> TRUE, use_qsort |-> FALSE,
     need_messages_from_generator |-> 0,
     partial_dir |-> NULL, filter_list |-> <<>>,
     checksum_seed |-> 0,
     exit_code |-> "none", errors |-> <<>>,
     entry_version |-> PROTOCOL_VERSION, entry_remote |-> 0,
     entry_delete |-> <<0, 0, 0>>, entry_seed |-> 0, our_sub |-> 0,
     sub_version |-> PROTOCOL_VERSION,
     written |-> <<>>, reads |-> <<>>]

\* A process that takes no part in the run.
Absent == [Globals EXCEPT !.pc = "off"]

(***************************************************************************)
(* rprintf(FERROR, ...) followed by exit_cleanup(RERR_PROTOCOL).           *)
(***************************************************************************)
Message(text, floor, negotiated) ==
    [text |-> text, floor |-> floor, negotiated |-> negotiated]

ExitCleanup(c, msg) ==
    [c EXCEPT !.pc = "exit", !.exit_code = RERR_PROTOCOL,
              !.errors = Append(@, msg)]

(***************************************************************************)
(* check_sub_protocol()                                                    *)
(***************************************************************************)
\* Line 71 with <= for <.
OurSubAtMaximumIsZero(c) ==
    IF c.protocol_version <= PROTOCOL_VERSION THEN 0 ELSE SUBPROTOCOL_VERSION

\* Line 71: our_sub.
OurSub(c) ==
    IF c.protocol_version < PROTOCOL_VERSION THEN 0 ELSE SUBPROTOCOL_VERSION

\* check_sub_protocol() with the test of our_sub on line 76 dropped.
CheckSubProtocolAlwaysDemotes(c) ==
    LET s == c.shell_cmd.chars
        dot == IF c.shell_cmd.isnull THEN 0 ELSE Strchr(s, ".")
        their_protocol == Atoi(s)
        parsed_sub == Atoi(After(s, dot))
    IN
    IF c.shell_cmd.isnull \/ dot = 0 \/ their_protocol = 0 \/ parsed_sub = 0
    THEN [c EXCEPT !.protocol_version = @ - 1]
    ELSE IF their_protocol < c.protocol_version
    THEN [c EXCEPT !.protocol_version = their_protocol - 1]
    ELSE LET their_sub == IF their_protocol > c.protocol_version
                          THEN 0 ELSE parsed_sub
         IN IF their_sub # OurSub(c)
            THEN [c EXCEPT !.protocol_version = @ - 1]
            ELSE c

\* check_sub_protocol() with line 83 assigning their_protocol itself.
CheckSubProtocolTrustsPeerMajor(c) ==
    LET our_sub == OurSub(c)
        s == c.shell_cmd.chars
        dot == IF c.shell_cmd.isnull THEN 0 ELSE Strchr(s, ".")
        their_protocol == Atoi(s)
        parsed_sub == Atoi(After(s, dot))
    IN
    IF c.shell_cmd.isnull \/ dot = 0 \/ their_protocol = 0 \/ parsed_sub = 0
    THEN IF our_sub # 0
         THEN [c EXCEPT !.protocol_version = @ - 1]
         ELSE c
    ELSE IF their_protocol < c.protocol_version
    THEN IF parsed_sub # 0
         THEN [c EXCEPT !.protocol_version = their_protocol]
         ELSE c
    ELSE LET their_sub == IF their_protocol > c.protocol_version
                          THEN 0 ELSE parsed_sub
         IN IF their_sub # our_sub
            THEN [c EXCEPT !.protocol_version = @ - 1]
            ELSE c

\* check_sub_protocol() without the reset of their_sub on lines 87-88.
CheckSubProtocolKeepsPeerSub(c) ==
    LET our_sub == OurSub(c)
        s == c.shell_cmd.chars
        dot == IF c.shell_cmd.isnull THEN 0 ELSE Strchr(s, ".")
        their_protocol == Atoi(s)
        parsed_sub == Atoi(After(s, dot))
    IN
    IF c.shell_cmd.isnull \/ dot = 0 \/ their_protocol = 0 \/ parsed_sub = 0
    THEN IF our_sub # 0
         THEN [c EXCEPT !.protocol_version = @ - 1]
         ELSE c
    ELSE IF their_protocol < c.protocol_version
    THEN IF parsed_sub # 0
         THEN [c EXCEPT !.protocol_version = their_protocol - 1]
         ELSE c
    ELSE IF parsed_sub # our_sub
         THEN [c EXCEPT !.protocol_version = @ - 1]
         ELSE c

CheckSubProtocol(c) ==
    LET our_sub == OurSub(c)
        s == c.shell_cmd.chars
        dot == IF c.shell_cmd.isnull THEN 0 ELSE Strchr(s, ".")
        their_protocol == Atoi(s)
        parsed_sub == Atoi(After(s, dot))
    IN
    IF c.shell_cmd.isnull \/ dot = 0 \/ their_protocol = 0 \/ parsed_sub = 0
    THEN IF our_sub # 0
         THEN [c EXCEPT !.protocol_version = @ - 1]
         ELSE c
    ELSE IF their_protocol < c.protocol_version
    THEN IF parsed_sub # 0
         THEN [c EXCEPT !.protocol_version = their_protocol - 1]
         ELSE c
    ELSE LET their_sub == IF their_protocol > c.protocol_version
                          THEN 0 ELSE parsed_sub
         IN IF their_sub # our_sub
            THEN [c EXCEPT !.protocol_version = @ - 1]
            ELSE c

(***************************************************************************)
(* setup_protocol(), one operator per block of the function.               *)
(***************************************************************************)
\* Lines 95-106 with each index taken before the counter is incremented.
SlotsPostIncrement(c) ==
    LET n0 == IF c.am_sender THEN c.file_extra_cnt + PTR_EXTRA_LEN
                             ELSE c.file_extra_cnt + 1
        n1 == IF c.preserve_uid THEN n0 + 1 ELSE n0
        n2 == IF c.preserve_gid THEN n1 + 1 ELSE n1
        n3 == IF c.preserve_acls /\ ~c.am_sender THEN n2 + 1 ELSE n2
        n4 == IF c.preserve_xattrs THEN n3 + 1 ELSE n3
    IN [c EXCEPT !.uid_ndx = IF c.preserve_uid THEN n0 ELSE @,
                 !.gid_ndx = IF c.preserve_gid THEN n1 ELSE @,
                 !.acls_ndx = IF c.preserve_acls /\ ~c.am_sender THEN n2 ELSE @,
                 !.xattrs_ndx = IF c.preserve_xattrs THEN n3 ELSE @,
                 !.file_extra_cnt = n4]

\* Lines 95-106: the file-list's extra-attribute slots.
Slots(c) ==
    LET n0 == IF c.am_sender THEN c.file_extra_cnt + PTR_EXTRA_LEN
                             ELSE c.file_extra_cnt + 1
        n1 == IF c.preserve_uid THEN n0 + 1 ELSE n0
        n2 == IF c.preserve_gid THEN n1 + 1 ELSE n1
        n3 == IF c.preserve_acls /\ ~c.am_sender THEN n2 + 1 ELSE n2
        n4 == IF c.preserve_xattrs THEN n3 + 1 ELSE n3
    IN [c EXCEPT !.uid_ndx = IF c.preserve_uid THEN n1 ELSE @,
                 !.gid_ndx = IF c.preserve_gid THEN n2 ELSE @,
                 !.acls_ndx = IF c.preserve_acls /\ ~c.am_sender THEN n3 ELSE @,
                 !.xattrs_ndx = IF c.preserve_xattrs THEN n4 ELSE @,
                 !.file_extra_cnt = n4]

\* Lines 108-110 without the test of local_server on line 109.
SubStepOnLoopbackToo(c) ==
    IF c.remote_protocol = 0 /\ c.am_server
    THEN CheckSubProtocol(c)
    ELSE c

\* Lines 108-110: the server of a remote client reconciles sub-protocols.
SubStep(c) ==
    IF c.remote_protocol = 0 /\ c.am_server /\ ~c.local_server
    THEN CheckSubProtocol(c)
    ELSE c

\* Lines 113-115 with the comparison of line 114 reversed.
ClampVersionReversed(c, v) ==
    [c EXCEPT !.remote_protocol = v,
              !.protocol_version = IF @ < v THEN v ELSE @]

\* Lines 113-115 without the assignment of line 115.
ClampVersionMissing(c, v) ==
    [c EXCEPT !.remote_protocol = v]

\* Lines 113-115: v is the integer read_int(f_in) returned.
ClampVersion(c, v) ==
    [c EXCEPT !.remote_protocol = v,
              !.protocol_version = IF @ > v THEN v ELSE @]

\* Lines 117-146 without the upper bound of line 128.
VersionChecksNoUpperBound(c) ==
    IF c.read_batch /\ c.remote_protocol > c.protocol_version
    THEN ExitCleanup(c, Message("The protocol version in the batch file is too new",
                                c.remote_protocol, c.protocol_version))
    ELSE IF c.remote_protocol < MIN_PROTOCOL_VERSION
    THEN ExitCleanup(c, Message("protocol version mismatch -- is your shell clean?",
                                c.remote_protocol, c.protocol_version))
    ELSE IF c.protocol_version < MIN_PROTOCOL_VERSION
    THEN ExitCleanup(c, Message("--protocol must be at least",
                                MIN_PROTOCOL_VERSION, c.protocol_version))
    ELSE IF c.protocol_version > PROTOCOL_VERSION
    THEN ExitCleanup(c, Message("--protocol must be no more than",
                                PROTOCOL_VERSION, c.protocol_version))
    ELSE [c EXCEPT !.pc = "gate30"]

\* Lines 117-146 without the batch-file check of lines 117-121.
VersionChecksNoBatchCheck(c) ==
    IF c.remote_protocol < MIN_PROTOCOL_VERSION
       \/ c.remote_protocol > MAX_PROTOCOL_VERSION
    THEN ExitCleanup(c, Message("protocol version mismatch -- is your shell clean?",
                                c.remote_protocol, c.protocol_version))
    ELSE IF c.protocol_version < MIN_PROTOCOL_VERSION
    THEN ExitCleanup(c, Message("--protocol must be at least",
                                MIN_PROTOCOL_VERSION, c.protocol_version))
    ELSE IF c.protocol_version > PROTOCOL_VERSION
    THEN ExitCleanup(c, Message("--protocol must be no more than",
                                PROTOCOL_VERSION, c.protocol_version))
    ELSE [c EXCEPT !.pc = "gate30"]

\* Lines 117-146: the checks of the two versions, in the code's order.
VersionChecks(c) ==
    IF c.read_batch /\ c.remote_protocol > c.protocol_version
    THEN ExitCleanup(c, Message("The protocol version in the batch file is too new",
                                c.remote_protocol, c.protocol_version))
    ELSE IF c.remote_protocol < MIN_PROTOCOL_VERSION
            \/ c.remote_protocol > MAX_PROTOCOL_VERSION
    THEN ExitCleanup(c, Message("protocol version mismatch -- is your shell clean?",
                                c.remote_protocol, c.protocol_version))
    ELSE IF c.protocol_version < MIN_PROTOCOL_VERSION
    THEN ExitCleanup(c, Message("--protocol must be at least",
                                MIN_PROTOCOL_VERSION, c.protocol_version))
    ELSE IF c.protocol_version > PROTOCOL_VERSION
    THEN ExitCleanup(c, Message("--protocol must be no more than",
                                PROTOCOL_VERSION, c.protocol_version))
    ELSE [c EXCEPT !.pc = "gate30"]

\* Lines 148-170 without the local_server exemption of lines 156 and 163.
Gate30NoLoopbackExemption(c) ==
    IF c.protocol_version < 30 /\ c.max_delete = 0 /\ c.am_sender
    THEN ExitCleanup(c, Message("--max-delete=0", 30, c.protocol_version))
    ELSE IF c.protocol_version < 30 /\ c.preserve_acls
    THEN ExitCleanup(c, Message("--acls", 30, c.protocol_version))
    ELSE IF c.protocol_version < 30 /\ c.preserve_xattrs
    THEN ExitCleanup(c, Message("--xattrs", 30, c.protocol_version))
    ELSE [c EXCEPT !.pc = "delete"]

\* Lines 148-170.
Gate30(c) ==
    IF c.protocol_version < 30 /\ c.max_delete = 0 /\ c.am_sender
    THEN ExitCleanup(c, Message("--max-delete=0", 30, c.protocol_version))
    ELSE IF c.protocol_version < 30 /\ c.preserve_acls /\ ~c.local_server
    THEN ExitCleanup(c, Message("--acls", 30, c.protocol_version))
    ELSE IF c.protocol_version < 30 /\ c.preserve_xattrs /\ ~c.local_server
    THEN ExitCleanup(c, Message("--xattrs", 30, c.protocol_version))
    ELSE [c EXCEPT !.pc = "delete"]

\* Lines 172-177 with the comparison of line 173 off by one.
DeleteTimingOffByOne(c) ==
    IF c.delete_mode /\ c.delete_before + c.delete_during + c.delete_after = 0
    THEN IF c.protocol_version <= 30
         THEN [c EXCEPT !.delete_before = 1]
         ELSE [c EXCEPT !.delete_during = 1]
    ELSE c

\* Lines 172-177.
DeleteTiming(c) ==
    IF c.delete_mode /\ c.delete_before + c.delete_during + c.delete_after = 0
    THEN IF c.protocol_version < 30
         THEN [c EXCEPT !.delete_before = 1]
         ELSE [c EXCEPT !.delete_during = 1]
    ELSE c

\* Lines 212-215 without the test of preserve_hard_links.
IncRecurseOkWithHardLinks(c) ==
    /\ c.recurse /\ c.allow_inc_recurse
    /\ c.delete_before = 0 /\ c.delete_after = 0 /\ ~c.delay_updates
    /\ (~c.relative_paths \/ c.implied_dirs) /\ ~c.use_qsort
    /\ ~c.prune_empty_dirs

\* Lines 212-215: the condition under which inc_recurse is set.
IncRecurseOk(c) ==
    /\ c.recurse /\ c.allow_inc_recurse /\ ~c.preserve_hard_links
    /\ c.delete_before = 0 /\ c.delete_after = 0 /\ ~c.delay_updates
    /\ (~c.relative_paths \/ c.implied_dirs) /\ ~c.use_qsort
    /\ ~c.prune_empty_dirs

\* Lines 179-218 with the comparison of line 179 off by one.
Gate29OffByOne(c) ==
    IF c.protocol_version <= 29
    THEN IF c.fuzzy_basis
         THEN ExitCleanup(c, Message("--fuzzy", 29, c.protocol_version))
         ELSE IF c.basis_dir_cnt # 0 /\ c.inplace
         THEN ExitCleanup(c, Message("dest_option with --inplace", 29,
                                     c.protocol_version))
         ELSE IF c.basis_dir_cnt > 1
         THEN ExitCleanup(c, Message("Using more than one dest_option option",
                                     29, c.protocol_version))
         ELSE IF c.prune_empty_dirs
         THEN ExitCleanup(c, Message("--prune-empty-dirs", 29,
                                     c.protocol_version))
         ELSE [c EXCEPT !.pc = "partial"]
    ELSE IF c.protocol_version >= 30
    THEN [c EXCEPT !.pc = "partial",
                   !.inc_recurse = IF IncRecurseOk(c) THEN 1 ELSE @,
                   !.need_messages_from_generator = 1]
    ELSE [c EXCEPT !.pc = "partial"]

\* Lines 179-218.
Gate29(c) ==
    IF c.protocol_version < 29
    THEN IF c.fuzzy_basis
         THEN ExitCleanup(c, Message("--fuzzy", 29, c.protocol_version))
         ELSE IF c.basis_dir_cnt # 0 /\ c.inplace
         THEN ExitCleanup(c, Message("dest_option with --inplace", 29,
                                     c.protocol_version))
         ELSE IF c.basis_dir_cnt > 1
         THEN ExitCleanup(c, Message("Using more than one dest_option option",
                                     29, c.protocol_version))
         ELSE IF c.prune_empty_dirs
         THEN ExitCleanup(c, Message("--prune-empty-dirs", 29,
                                     c.protocol_version))
         ELSE [c EXCEPT !.pc = "partial"]
    ELSE IF c.protocol_version >= 30
    THEN [c EXCEPT !.pc = "partial",
                   !.inc_recurse = IF IncRecurseOk(c) THEN 1 ELSE @,
                   !.need_messages_from_generator = 1]
    ELSE [c EXCEPT !.pc = "partial"]

\* Lines 220-225 with the perishable flag set without the test of line 223.
PartialRuleAlwaysPerishable(c) ==
    IF ~c.partial_dir.isnull
       /\ (c.partial_dir.chars = <<>> \/ Head(c.partial_dir.chars) # "/")
       /\ (~c.am_server \/ c.local_server)
    THEN LET flags == {MATCHFLG_NO_PREFIXES, MATCHFLG_DIRECTORY,
                       MATCHFLG_PERISHABLE}
         IN [c EXCEPT !.filter_list =
                 Append(@, [pattern |-> c.partial_dir.chars, flags |-> flags])]
    ELSE c

\* Lines 220-225: parse_rule(&filter_list, partial_dir, flags, 0).
PartialRule(c) ==
    IF ~c.partial_dir.isnull
       /\ (c.partial_dir.chars = <<>> \/ Head(c.partial_dir.chars) # "/")
       /\ (~c.am_server \/ c.local_server)
    THEN LET flags == {MATCHFLG_NO_PREFIXES, MATCHFLG_DIRECTORY}
                      \cup (IF ~c.am_sender \/ c.protocol_version >= 30
                            THEN {MATCHFLG_PERISHABLE} ELSE {})
         IN [c EXCEPT !.filter_list =
                 Append(@, [pattern |-> c.partial_dir.chars, flags |-> flags])]
    ELSE c

\* Lines 228-229 without the test of line 228.
SeedServerAlwaysFresh(c, t) ==
    [c EXCEPT !.checksum_seed = t]

\* Lines 228-229: t is the value of time(NULL).
SeedServer(c, t) ==
    [c EXCEPT !.checksum_seed = IF @ = 0 THEN t ELSE @]

\* Line 232: v is the integer read_int(f_in) returned.
SeedClient(c, v) ==
    [c EXCEPT !.checksum_seed = v]

\* What a process logs of its reads and writes.
Wrote(c, kind, v) == [c EXCEPT !.written = Append(@, [kind |-> kind, val |-> v])]

Read(c, kind, v) == [c EXCEPT !.reads = Append(@, [kind |-> kind, val |-> v])]

(***************************************************************************)
(* The steps of a process.                                                 *)
(***************************************************************************)
\* The first step with the allocation of lines 95-106 left for later.
AllocateSlotsDeferred(p) ==
    /\ proc[p].pc = "start"
    /\ proc' = [proc EXCEPT ![p] =
                   [proc[p] EXCEPT !.pc = "negotiate",
                        !.entry_version = proc[p].protocol_version,
                        !.entry_remote = proc[p].remote_protocol,
                        !.entry_delete = <<proc[p].delete_before,
                                           proc[p].delete_during,
                                           proc[p].delete_after>>,
                        !.entry_seed = proc[p].checksum_seed]]
    /\ UNCHANGED chan

AllocateSlots(p) ==
    /\ proc[p].pc = "start"
    /\ proc' = [proc EXCEPT ![p] =
                   [Slots(proc[p]) EXCEPT !.pc = "negotiate",
                        !.entry_version = proc[p].protocol_version,
                        !.entry_remote = proc[p].remote_protocol,
                        !.entry_delete = <<proc[p].delete_before,
                                           proc[p].delete_during,
                                           proc[p].delete_after>>,
                        !.entry_seed = proc[p].checksum_seed]]
    /\ UNCHANGED chan

ResolveSubProtocol(p) ==
    /\ proc[p].pc = "negotiate"
    /\ LET c == SubStep(proc[p]) IN
       proc' = [proc EXCEPT ![p] =
                   [c EXCEPT !.sub_version = c.protocol_version,
                             !.our_sub = IF c.remote_protocol = 0
                                            /\ c.am_server /\ ~c.local_server
                                         THEN OurSub(proc[p]) ELSE @,
                             !.pc = IF c.remote_protocol = 0
                                    THEN "write" ELSE "check"]]
    /\ UNCHANGED chan

\* Line 111 writing the version held before check_sub_protocol() ran.
WriteVersionBeforeResolution(p) ==
    /\ proc[p].pc = "write"
    /\ IF ~proc[p].read_batch
       THEN /\ proc' = [proc EXCEPT ![p] =
                   [Wrote(proc[p], "version", proc[p].entry_version)
                        EXCEPT !.pc = "read"]]
            /\ chan' = [chan EXCEPT ![Peer(p)] =
                            Append(@, proc[p].entry_version)]
       ELSE /\ proc' = [proc EXCEPT ![p].pc = "read"]
            /\ UNCHANGED chan

\* Line 111 with the integer left in the output buffer, never sent.
WriteVersionUnsent(p) ==
    /\ proc[p].pc = "write"
    /\ IF ~proc[p].read_batch
       THEN /\ proc' = [proc EXCEPT ![p] =
                   [Wrote(proc[p], "version", proc[p].protocol_version)
                        EXCEPT !.pc = "read"]]
            /\ UNCHANGED chan
       ELSE /\ proc' = [proc EXCEPT ![p].pc = "read"]
            /\ UNCHANGED chan

WriteVersion(p) ==
    /\ proc[p].pc = "write"
    /\ IF ~proc[p].read_batch
       THEN /\ proc' = [proc EXCEPT ![p] =
                   [Wrote(proc[p], "version", proc[p].protocol_version)
                        EXCEPT !.pc = "read"]]
            /\ chan' = [chan EXCEPT ![Peer(p)] =
                            Append(@, proc[p].protocol_version)]
       ELSE /\ proc' = [proc EXCEPT ![p].pc = "read"]
            /\ UNCHANGED chan

ReadVersion(p) ==
    /\ proc[p].pc = "read"
    /\ chan[p] # <<>>
    /\ LET v == Head(chan[p]) IN
       proc' = [proc EXCEPT ![p] =
                   [Read(ClampVersion(proc[p], v), "version", v)
                        EXCEPT !.pc = "check"]]
    /\ chan' = [chan EXCEPT ![p] = Tail(@)]

CheckVersions(p) ==
    /\ proc[p].pc = "check"
    /\ proc' = [proc EXCEPT ![p] = VersionChecks(proc[p])]
    /\ UNCHANGED chan

CheckGate30(p) ==
    /\ proc[p].pc = "gate30"
    /\ proc' = [proc EXCEPT ![p] = Gate30(proc[p])]
    /\ UNCHANGED chan

ResolveDeleteTiming(p) ==
    /\ proc[p].pc = "delete"
    /\ proc' = [proc EXCEPT ![p] =
                   [DeleteTiming(proc[p]) EXCEPT !.pc = "gate29"]]
    /\ UNCHANGED chan

\* Lines 179-210 run after the registration of lines 220-225.
CheckGate29AfterRegistering(p) ==
    /\ proc[p].pc = "gate29"
    /\ proc' = [proc EXCEPT ![p] = Gate29(PartialRule(proc[p]))]
    /\ UNCHANGED chan

CheckGate29(p) ==
    /\ proc[p].pc = "gate29"
    /\ proc' = [proc EXCEPT ![p] = Gate29(proc[p])]
    /\ UNCHANGED chan

RegisterPartialDir(p) ==
    /\ proc[p].pc = "partial"
    /\ proc' = [proc EXCEPT ![p] = [PartialRule(proc[p]) EXCEPT !.pc = "seed"]]
    /\ UNCHANGED chan

TimeVals == {5, 6}

ExchangeSeed(p) ==
    /\ proc[p].pc = "seed"
    /\ IF proc[p].am_server
       THEN \E t \in TimeVals :
              LET c == SeedServer(proc[p], t) IN
              /\ proc' = [proc EXCEPT ![p] =
                     [Wrote(c, "seed", c.checksum_seed) EXCEPT !.pc = "done"]]
              /\ chan' = [chan EXCEPT ![Peer(p)] = Append(@, c.checksum_seed)]
       ELSE /\ chan[p] # <<>>
            /\ LET v == Head(chan[p]) IN
               proc' = [proc EXCEPT ![p] =
                   [Read(SeedClient(proc[p], v), "seed", v) EXCEPT !.pc = "done"]]
            /\ chan' = [chan EXCEPT ![p] = Tail(@)]

Next ==
    \E p \in Procs :
        \/ AllocateSlots(p)
        \/ ResolveSubProtocol(p)
        \/ WriteVersion(p)
        \/ ReadVersion(p)
        \/ CheckVersions(p)
        \/ CheckGate30(p)
        \/ ResolveDeleteTiming(p)
        \/ CheckGate29(p)
        \/ RegisterPartialDir(p)
        \/ ExchangeSeed(p)

(***************************************************************************)
(* Runs of one process: what it is started with and what its f_in holds.   *)
(* remote_protocol is an exported global that the daemon handshake sets    *)
(* before setup_protocol() is called (hence the test of line 108), and     *)
(* protocol_version is the value of --protocol.                            *)
(***************************************************************************)
Alphabet == {"0", "2", "3", ".", "-"}

Strings(n) == UNION {[1..k -> Alphabet] : k \in 0..n}

Hints == {NULL} \cup {Str(s) : s \in Strings(MaxHintLen)}

SomeHints == {NULL, Str(<<"3", "0", ".", "3">>), Str(<<"2", "3", ".", "2">>)}

LocalVersions == {19, 20, 29, 30, 31}

WireVersions == {0, 19, 20, 28, 29, 30, 31, 40, 41}

PresetVersions == {0, 19, 28, 30, 31, 41}

\* What the peer, or the batch file, sends as its checksum seed.
WireSeeds == {7}

Single(c, input) ==
    /\ proc = [p \in Procs |-> IF p = "A" THEN c ELSE Absent]
    /\ chan = [p \in Procs |-> IF p = "A" THEN input ELSE <<>>]

\* A server of a remote client, for every hint string.
HintRuns ==
    {<<[Globals EXCEPT !.am_server = TRUE, !.shell_cmd = h,
                       !.protocol_version = v], <<w, s>>>> :
        h \in Hints, v \in {29, 30, 31}, w \in {20, 22, 29, 30, 41},
        s \in WireSeeds}

\* Every role, live or from a batch file, with or without a preset
\* remote_protocol.
RoleRuns ==
    {<<[Globals EXCEPT !.am_server = r[1], !.local_server = r[2],
                       !.read_batch = r[3], !.shell_cmd = h,
                       !.protocol_version = v, !.remote_protocol = pre],
       IF pre = 0 THEN <<w, s>> ELSE <<s>>>> :
        r \in BOOLEAN \X BOOLEAN \X BOOLEAN, h \in SomeHints,
        v \in LocalVersions, pre \in PresetVersions, w \in WireVersions,
        s \in WireSeeds}

Init == \E run \in HintRuns \cup RoleRuns : Single(run[1], run[2])

Spec == Init /\ [][Next]_vars

\* Runs over the feature requests that lines 148-210 test.
MaxBasisDirs == 2

GateVersions == {20, 28, 29, 30, 40}

GateRuns ==
    {<<[Globals EXCEPT !.am_server = r[1], !.am_sender = r[2],
                       !.local_server = r[3],
                       !.max_delete = md, !.preserve_acls = f[1],
                       !.preserve_xattrs = f[2], !.fuzzy_basis = f[3],
                       !.inplace = f[4], !.prune_empty_dirs = f[5],
                       !.basis_dir_cnt = n],
       <<w, s>>>> :
        r \in BOOLEAN \X BOOLEAN \X BOOLEAN, md \in {INT_MIN, 0, 1},
        f \in BOOLEAN \X BOOLEAN \X BOOLEAN \X BOOLEAN \X BOOLEAN,
        n \in 0..MaxBasisDirs, w \in GateVersions, s \in WireSeeds}

InitGate == \E run \in GateRuns : Single(run[1], run[2])

SpecGate == InitGate /\ [][Next]_vars

\* Runs over the requests that lines 172-177 and 211-216 test.
PolicyRuns ==
    {<<[Globals EXCEPT !.delete_mode = d[1],
                       !.delete_before = IF d[2] THEN 1 ELSE 0,
                       !.delete_during = IF d[3] THEN 1 ELSE 0,
                       !.delete_after = IF d[4] THEN 1 ELSE 0,
                       !.recurse = f[1], !.allow_inc_recurse = f[2],
                       !.preserve_hard_links = f[3], !.delay_updates = f[4],
                       !.relative_paths = f[5], !.implied_dirs = f[6],
                       !.use_qsort = f[7], !.prune_empty_dirs = f[8]],
       <<w, s>>>> :
        d \in BOOLEAN \X BOOLEAN \X BOOLEAN \X BOOLEAN,
        f \in BOOLEAN \X BOOLEAN \X BOOLEAN \X BOOLEAN
              \X BOOLEAN \X BOOLEAN \X BOOLEAN \X BOOLEAN,
        w \in {28, 29, 30, 31}, s \in WireSeeds}

InitPolicy == \E run \in PolicyRuns : Single(run[1], run[2])

SpecPolicy == InitPolicy /\ [][Next]_vars

\* Runs over the requests that lines 95-106 test.
SlotRuns ==
    {<<[Globals EXCEPT !.am_server = r[1], !.am_sender = r[2],
                       !.preserve_uid = f[1], !.preserve_gid = f[2],
                       !.preserve_acls = f[3], !.preserve_xattrs = f[4]],
       <<w, s>>>> :
        r \in BOOLEAN \X BOOLEAN,
        f \in BOOLEAN \X BOOLEAN \X BOOLEAN \X BOOLEAN,
        w \in {19, 29, 30}, s \in WireSeeds}

InitSlots == \E run \in SlotRuns : Single(run[1], run[2])

SpecSlots == InitSlots /\ [][Next]_vars

(***************************************************************************)
(* Properties of the version negotiation.                                  *)
(***************************************************************************)
Min(a, b) == IF a < b THEN a ELSE b

\* The labels of a process that has passed the version checks of lines
\* 117-146 and has not exited.
PastVersionChecks == {"gate30", "delete", "gate29", "partial", "seed", "done"}

\* The integers of one kind in a log of reads or writes.
OfKind(log, kind) == SelectSeq(log, LAMBDA e : e.kind = kind)

\* C1: a process that got past the version checks holds
\* MIN_PROTOCOL_VERSION <= protocol_version <= PROTOCOL_VERSION and
\* MIN_PROTOCOL_VERSION <= remote_protocol <= MAX_PROTOCOL_VERSION (so a
\* remote_protocol out of range is fatal whatever protocol_version is), and
\* its protocol_version is a value the negotiation produced (the one after
\* the sub-protocol step, or the peer's), never one forced into the range.
C1_VersionsInRange ==
    \A p \in Procs :
        proc[p].pc \in PastVersionChecks =>
            /\ MIN_PROTOCOL_VERSION <= proc[p].protocol_version
            /\ proc[p].protocol_version <= PROTOCOL_VERSION
            /\ MIN_PROTOCOL_VERSION <= proc[p].remote_protocol
            /\ proc[p].remote_protocol <= MAX_PROTOCOL_VERSION
            /\ proc[p].protocol_version
                   \in {proc[p].sub_version, proc[p].remote_protocol}

C1_Witness ==
    \E p \in Procs :
        /\ proc[p].pc = "done"
        /\ proc[p].entry_version > PROTOCOL_VERSION
        /\ proc[p].protocol_version = proc[p].remote_protocol
        /\ proc[p].remote_protocol < PROTOCOL_VERSION

\* C2: no step of a process increases its protocol_version.
C2_VersionNeverIncreases ==
    [][\A p \in Procs :
           proc'[p].protocol_version <= proc[p].protocol_version]_vars

C2_Witness ==
    \E p \in Procs :
        /\ proc[p].pc = "check"
        /\ proc[p].sub_version < proc[p].entry_version
        /\ proc[p].protocol_version < proc[p].sub_version

\* C3 as claimed: a completed run has read remote_protocol from the channel
\* exactly once and ends with protocol_version = min(protocol_version after
\* the sub-protocol step, remote_protocol).
C3_Claimed ==
    \A p \in Procs :
        proc[p].pc = "done" =>
            /\ OfKind(proc[p].reads, "version")
                   = <<[kind |-> "version", val |-> proc[p].remote_protocol]>>
            /\ proc[p].protocol_version
                   = Min(proc[p].sub_version, proc[p].remote_protocol)

\* C3 as amended: that holds of a run entered with remote_protocol = 0 (and
\* then, when the local sub-protocol revision is 0 and the hint carries no
\* nonzero sub-revision, protocol_version = min(entry value, remote_protocol));
\* a run entered with remote_protocol # 0 reads no version and keeps both
\* remote_protocol and the protocol_version it was entered with.
C3_ReadOnceAndMin ==
    \A p \in Procs :
        proc[p].pc = "done" =>
            IF proc[p].entry_remote = 0
            THEN /\ OfKind(proc[p].reads, "version")
                       = <<[kind |-> "version",
                            val |-> proc[p].remote_protocol]>>
                 /\ proc[p].protocol_version
                       = Min(proc[p].sub_version, proc[p].remote_protocol)
                 /\ (/\ proc[p].entry_version < PROTOCOL_VERSION
                     /\ \/ proc[p].shell_cmd.isnull
                        \/ Strchr(proc[p].shell_cmd.chars, ".") = 0
                        \/ Atoi(After(proc[p].shell_cmd.chars,
                                      Strchr(proc[p].shell_cmd.chars, "."))) = 0)
                    => proc[p].protocol_version
                          = Min(proc[p].entry_version, proc[p].remote_protocol)
            ELSE /\ OfKind(proc[p].reads, "version") = <<>>
                 /\ proc[p].remote_protocol = proc[p].entry_remote
                 /\ proc[p].protocol_version = proc[p].entry_version

C3_Witness ==
    \E p \in Procs :
        /\ proc[p].pc = "done"
        /\ proc[p].entry_remote = 0
        /\ proc[p].am_server /\ ~proc[p].local_server
        /\ proc[p].sub_version < proc[p].entry_version
        /\ proc[p].remote_protocol < proc[p].sub_version
        /\ proc[p].protocol_version = proc[p].remote_protocol

\* Whether check_sub_protocol() has run in process p.
RanCheckSubProtocol(p) ==
    /\ proc[p].pc \notin {"off", "start", "negotiate"}
    /\ proc[p].entry_remote = 0
    /\ proc[p].am_server /\ ~proc[p].local_server

\* A hint that is absent, has no dot, or whose major or sub component
\* parses to zero.
NoUsableHint(h) ==
    \/ h.isnull
    \/ \A i \in 1..Len(h.chars) : h.chars[i] # "."
    \/ Atoi(h.chars) = 0
    \/ Atoi(After(h.chars, Strchr(h.chars, "."))) = 0

\* C4: when check_sub_protocol() ran with such a hint, protocol_version was
\* left unchanged if the local sub-protocol revision (our_sub, line 71) was 0
\* and was decreased by exactly 1 if it was nonzero.
C4_NoHintDemotion ==
    \A p \in Procs :
        (RanCheckSubProtocol(p) /\ NoUsableHint(proc[p].shell_cmd)) =>
            proc[p].sub_version =
                IF (IF proc[p].entry_version < PROTOCOL_VERSION
                    THEN 0 ELSE SUBPROTOCOL_VERSION) = 0
                THEN proc[p].entry_version
                ELSE proc[p].entry_version - 1

C4_Witness ==
    \E p \in Procs :
        /\ RanCheckSubProtocol(p)
        /\ proc[p].shell_cmd = Str(<<"3", "0", ".", "0">>)
        /\ proc[p].entry_version = PROTOCOL_VERSION
        /\ proc[p].sub_version = PROTOCOL_VERSION - 1

\* C5: a process reading a batch file never writes its protocol_version, and
\* when the recorded remote_protocol exceeds its protocol_version it exits
\* with RERR_PROTOCOL on the batch-file check: with no other error logged, no
\* filter rule registered and no seed read, written or assigned.
C5_ReplayTooNew ==
    \A p \in Procs :
        proc[p].read_batch =>
            /\ OfKind(proc[p].written, "version") = <<>>
            /\ (/\ proc[p].pc \in PastVersionChecks \cup {"exit"}
                /\ proc[p].remote_protocol > proc[p].sub_version)
               => /\ proc[p].pc = "exit"
                  /\ proc[p].exit_code = RERR_PROTOCOL
                  /\ Len(proc[p].errors) = 1
                  /\ proc[p].errors[1].text
                       = "The protocol version in the batch file is too new"
                  /\ proc[p].filter_list = <<>>
                  /\ OfKind(proc[p].written, "seed") = <<>>
                  /\ OfKind(proc[p].reads, "seed") = <<>>
                  /\ proc[p].checksum_seed = 0

C5_Witness ==
    \E p \in Procs :
        /\ proc[p].read_batch
        /\ proc[p].pc = "exit"
        /\ proc[p].entry_remote = 0
        /\ proc[p].remote_protocol > proc[p].entry_version
        /\ proc[p].remote_protocol <= MAX_PROTOCOL_VERSION
        /\ proc[p].written = <<>>

(***************************************************************************)
(* Properties of the feature gates and of the resolved policy.             *)
(***************************************************************************)
\* Process p has passed the version checks of lines 117-146: it is beyond
\* them, or it exited on a later check.
VersionsAccepted(p) ==
    /\ proc[p].pc \in PastVersionChecks \cup {"exit"}
    /\ ~(proc[p].read_batch
         /\ proc[p].remote_protocol > proc[p].protocol_version)
    /\ MIN_PROTOCOL_VERSION <= proc[p].remote_protocol
    /\ proc[p].remote_protocol <= MAX_PROTOCOL_VERSION
    /\ MIN_PROTOCOL_VERSION <= proc[p].protocol_version
    /\ proc[p].protocol_version <= PROTOCOL_VERSION

\* Process p has left the feature validation of lines 148-218, either way.
ValidationOver(p) == proc[p].pc \in {"partial", "seed", "done", "exit"}

\* A feature that lines 148-202 reject before line 204 looks at
\* prune_empty_dirs.
EarlierGate(p) ==
    LET c == proc[p] IN
    \/ c.protocol_version < 30 /\ c.max_delete = 0 /\ c.am_sender
    \/ c.protocol_version < 30 /\ c.preserve_acls /\ ~c.local_server
    \/ c.protocol_version < 30 /\ c.preserve_xattrs /\ ~c.local_server
    \/ c.protocol_version < 29 /\ c.fuzzy_basis
    \/ c.protocol_version < 29 /\ c.basis_dir_cnt > 0 /\ c.inplace
    \/ c.protocol_version < 29 /\ c.basis_dir_cnt > 1

PruneError(p) ==
    <<[text |-> "--prune-empty-dirs", floor |-> 29,
       negotiated |-> proc[p].protocol_version]>>

\* C6 as claimed: with the peer at version 29, a local version >= 29 and
\* empty-directory pruning requested, feature validation exits with a
\* protocol error, which names --prune-empty-dirs and the floor 29 (when no
\* earlier check has fired with its own error).
C6_Claimed ==
    \A p \in Procs :
        (/\ VersionsAccepted(p) /\ ValidationOver(p)
         /\ proc[p].remote_protocol = 29 /\ proc[p].entry_version >= 29
         /\ proc[p].prune_empty_dirs)
        => /\ proc[p].pc = "exit"
           /\ proc[p].exit_code = RERR_PROTOCOL
           /\ ~EarlierGate(p) => proc[p].errors = PruneError(p)

\* C6 as amended: that is what happens when the negotiated protocol_version
\* is below 29 (the peer at 28); at a negotiated version of 29 or more no
\* error names --prune-empty-dirs.
C6_PruneBelow29 ==
    \A p \in Procs :
        (VersionsAccepted(p) /\ ValidationOver(p) /\ proc[p].prune_empty_dirs)
        => IF proc[p].protocol_version < 29
           THEN /\ proc[p].pc = "exit"
                /\ proc[p].exit_code = RERR_PROTOCOL
                /\ ~EarlierGate(p) => proc[p].errors = PruneError(p)
           ELSE /\ \A i \in 1..Len(proc[p].errors) :
                       proc[p].errors[i].text # "--prune-empty-dirs"
                /\ ~EarlierGate(p) => proc[p].pc # "exit"

C6_Witness ==
    \E p \in Procs :
        /\ proc[p].pc = "exit"
        /\ proc[p].remote_protocol = 28
        /\ proc[p].protocol_version = 28
        /\ proc[p].entry_version >= 29
        /\ proc[p].prune_empty_dirs
        /\ proc[p].errors = PruneError(p)

\* The seven feature requests that the negotiated version can rule out.
GateViolated(p) ==
    LET c == proc[p]
        version == c.protocol_version
    IN
    \/ c.max_delete = 0 /\ c.am_sender /\ version < 30
    \/ c.preserve_acls /\ ~c.local_server /\ version < 30
    \/ c.preserve_xattrs /\ ~c.local_server /\ version < 30
    \/ c.fuzzy_basis /\ version < 29
    \/ c.basis_dir_cnt > 0 /\ c.inplace /\ version < 29
    \/ c.basis_dir_cnt > 1 /\ version < 29
    \/ c.prune_empty_dirs /\ version < 29

\* C7: a process whose versions were accepted exits with a protocol error
\* if and only if one of the seven holds; on a loopback session no error
\* names --acls or --xattrs.
C7_GateIff ==
    \A p \in Procs :
        (VersionsAccepted(p) /\ ValidationOver(p))
        => /\ proc[p].pc = "exit" <=> GateViolated(p)
           /\ proc[p].pc = "exit" => proc[p].exit_code = RERR_PROTOCOL
           /\ proc[p].local_server =>
                \A i \in 1..Len(proc[p].errors) :
                    proc[p].errors[i].text \notin {"--acls", "--xattrs"}

C7_Witness ==
    \E p \in Procs :
        /\ proc[p].pc = "done"
        /\ proc[p].local_server
        /\ proc[p].preserve_acls /\ proc[p].preserve_xattrs
        /\ proc[p].protocol_version = 29
        /\ proc[p].prune_empty_dirs

\* The three delete timing flags of a process.
DeleteFlags(p) ==
    <<proc[p].delete_before, proc[p].delete_during, proc[p].delete_after>>

\* C8: once lines 172-177 have run, a process that was entered with
\* delete_mode and none of the three timing flags has exactly delete_before
\* set if protocol_version < 30 and exactly delete_during set otherwise; in
\* every other case, and before those lines, the three flags are the ones
\* it was entered with.
C8_DeleteTimingDefault ==
    \A p \in Procs :
        proc[p].pc \notin {"off", "start"} =>
            IF /\ proc[p].pc \in {"gate29", "partial", "seed", "done"}
               /\ proc[p].delete_mode
               /\ proc[p].entry_delete = <<0, 0, 0>>
            THEN DeleteFlags(p) = IF proc[p].protocol_version < 30
                                  THEN <<1, 0, 0>> ELSE <<0, 1, 0>>
            ELSE \/ DeleteFlags(p) = proc[p].entry_delete
                 \/ /\ proc[p].pc = "exit"
                    /\ proc[p].delete_mode
                    /\ proc[p].entry_delete = <<0, 0, 0>>
                    /\ proc[p].errors[1].floor = 29
                    /\ DeleteFlags(p) = <<1, 0, 0>>

C8_Witness ==
    \E p \in Procs :
        /\ proc[p].pc = "done"
        /\ proc[p].delete_mode
        /\ proc[p].entry_delete = <<0, 0, 0>>
        /\ proc[p].protocol_version = 29
        /\ DeleteFlags(p) = <<1, 0, 0>>

\* C9: after a successful setup_protocol(), inc_recurse is set if and only
\* if protocol_version >= 30 and every condition of the claim holds, with
\* delete_before and delete_after as resolved; it is never set when
\* preserve_hard_links is.
C9_IncRecurseIff ==
    \A p \in Procs :
        proc[p].pc = "done" =>
            /\ proc[p].inc_recurse \in {0, 1}
            /\ proc[p].inc_recurse = 1 <=>
                 /\ proc[p].protocol_version >= 30
                 /\ proc[p].recurse
                 /\ proc[p].allow_inc_recurse
                 /\ ~proc[p].preserve_hard_links
                 /\ proc[p].delete_before = 0
                 /\ proc[p].delete_after = 0
                 /\ ~proc[p].delay_updates
                 /\ (~proc[p].relative_paths \/ proc[p].implied_dirs)
                 /\ ~proc[p].use_qsort
                 /\ ~proc[p].prune_empty_dirs
            /\ proc[p].preserve_hard_links => proc[p].inc_recurse = 0

C9_Witness ==
    \E p \in Procs :
        /\ proc[p].pc = "done"
        /\ proc[p].inc_recurse = 1
        /\ proc[p].delete_mode
        /\ proc[p].delete_during = 1
        /\ proc[p].relative_paths

\* The slot index of each feature, and the features that get a slot.
SlotIndex(p) ==
    [uid |-> proc[p].uid_ndx, gid |-> proc[p].gid_ndx,
     acls |-> proc[p].acls_ndx, xattrs |-> proc[p].xattrs_ndx]

SlotRequested(p) ==
    {f \in {"uid", "gid", "acls", "xattrs"} :
        \/ f = "uid" /\ proc[p].preserve_uid
        \/ f = "gid" /\ proc[p].preserve_gid
        \/ f = "acls" /\ proc[p].preserve_acls /\ ~proc[p].am_sender
        \/ f = "xattrs" /\ proc[p].preserve_xattrs}

SlotRank(f) ==
    CASE f = "uid" -> 1 [] f = "gid" -> 2 [] f = "acls" -> 3 [] f = "xattrs" -> 4

\* C10: after the slot allocation, the requested features hold pairwise
\* distinct indices that fill baseline+1 .. file_extra_cnt in the order
\* uid, gid, acls, xattrs, the others hold none, and file_extra_cnt is the
\* baseline (2 for the sender, 1 otherwise) plus the number of slots.
C10_SlotLayout ==
    \A p \in Procs :
        proc[p].pc \notin {"off", "start"} =>
            LET baseline == IF proc[p].am_sender THEN 2 ELSE 1
                ndx == SlotIndex(p)
                got == SlotRequested(p)
            IN
            /\ proc[p].file_extra_cnt = baseline + Cardinality(got)
            /\ {ndx[f] : f \in got} = (baseline + 1)..proc[p].file_extra_cnt
            /\ \A f, g \in got : f # g => ndx[f] # ndx[g]
            /\ \A f, g \in got : SlotRank(f) < SlotRank(g) => ndx[f] < ndx[g]
            /\ \A f \in DOMAIN ndx : f \notin got => ndx[f] = 0
            /\ (/\ proc[p].am_sender
                /\ proc[p].preserve_uid /\ proc[p].preserve_xattrs
                /\ ~proc[p].preserve_gid /\ ~proc[p].preserve_acls)
               => /\ proc[p].uid_ndx = 3
                  /\ proc[p].xattrs_ndx = 4
                  /\ proc[p].file_extra_cnt = 4

C10_Witness ==
    \E p \in Procs :
        /\ proc[p].pc = "done"
        /\ proc[p].am_sender
        /\ proc[p].preserve_acls
        /\ proc[p].uid_ndx = 3
        /\ proc[p].gid_ndx = 0
        /\ proc[p].acls_ndx = 0
        /\ proc[p].xattrs_ndx = 4
        /\ proc[p].file_extra_cnt = 4

(***************************************************************************)
(* A session: the server "A" and the client "B" run setup_protocol() over  *)
(* a reliable duplex channel, both entered with remote_protocol = 0.  The  *)
(* two are on the two ends of the transfer (one of them is the sender) and *)
(* agree on local_server, which the server of a local copy inherits.       *)
(***************************************************************************)
SessionHints ==
    SomeHints \cup {Str(<<"3", "0", ".", "2">>), Str(<<"3", "2", ".", "3">>),
                    Str(<<"3", "0">>), Str(<<"2", "0", ".", "3">>)}

SessionRuns ==
    {[A |-> [Globals EXCEPT !.am_server = TRUE, !.am_sender = r[1],
                            !.local_server = r[2], !.shell_cmd = h,
                            !.protocol_version = vs, !.checksum_seed = seed[1]],
      B |-> [Globals EXCEPT !.am_server = FALSE, !.am_sender = ~r[1],
                            !.local_server = r[2],
                            !.protocol_version = vc, !.checksum_seed = seed[2]]] :
        r \in BOOLEAN \X BOOLEAN, h \in SessionHints,
        vs \in {20, 29, 30, 31}, vc \in {19, 28, 29, 30, 31},
        seed \in {0, 9} \X {0, 4}}

InitSession ==
    /\ proc \in SessionRuns
    /\ chan = [p \in Procs |-> <<>>]

SpecSession == InitSession /\ [][Next]_vars

\* The server and the client of a session.
IsServer(p) == proc[p].pc # "off" /\ proc[p].am_server

IsClient(p) == proc[p].pc # "off" /\ ~proc[p].am_server

MaxPathLen == 2

PathAlphabet == {"/", "p"}

Paths == {NULL} \cup {Str(s) : s \in UNION {[1..k -> PathAlphabet] : k \in 0..MaxPathLen}}

RegisterRuns ==
    {<<[Globals EXCEPT !.am_server = r[1], !.am_sender = r[2],
                       !.local_server = r[3], !.read_batch = r[4],
                       !.partial_dir = d, !.protocol_version = v,
                       !.preserve_xattrs = f[1], !.prune_empty_dirs = f[2],
                       !.checksum_seed = seed],
       <<w, s>>>> :
        r \in BOOLEAN \X BOOLEAN \X BOOLEAN \X BOOLEAN, d \in Paths,
        v \in {19, 30, 31}, f \in BOOLEAN \X BOOLEAN, seed \in {0, 9},
        w \in {19, 28, 29, 30, 31, 41}, s \in WireSeeds}

InitRegister == \E run \in RegisterRuns : Single(run[1], run[2])

SpecRegister == InitRegister /\ [][Next]_vars

\* The slot indices and the slot count of a process.
SlotState(p) ==
    <<proc[p].file_extra_cnt, proc[p].uid_ndx, proc[p].gid_ndx,
      proc[p].acls_ndx, proc[p].xattrs_ndx>>

\* C12 as claimed, in what it says of the slots: no slot index and no
\* file_extra_cnt is modified before the feature validation has passed.
C12_Claimed ==
    \A p \in Procs :
        proc[p].pc \in {"start", "negotiate", "write", "read", "check",
                        "gate30", "delete", "gate29", "exit"}
        => SlotState(p) = <<0, 0, 0, 0, 0>>

\* C12 as amended: the slot allocation comes first and is final from then
\* on; then the sub-protocol step, the version write before the version
\* read, the version checks before any gate, the gates before the rule of
\* partial_dir, and the seed exchange last.
C12_StepOrder ==
    \A p \in Procs :
        LET c == proc[p]
            begun == c.pc \notin {"off", "start"}
            exchanged == c.pc \notin {"off", "start", "negotiate", "write", "read"}
        IN
        /\ ~begun => /\ SlotState(p) = <<0, 0, 0, 0, 0>>
                     /\ c.written = <<>> /\ c.reads = <<>>
        /\ begun => /\ c.file_extra_cnt
                         = (IF c.am_sender THEN PTR_EXTRA_LEN ELSE 1)
                           + Cardinality(SlotRequested(p))
                    /\ (c.preserve_xattrs => c.xattrs_ndx = c.file_extra_cnt)
        /\ c.pc \in {"start", "negotiate"}
             => c.written = <<>> /\ c.reads = <<>> /\ c.errors = <<>>
        /\ c.pc \in {"write", "read"}
             => /\ c.protocol_version = c.sub_version
                /\ c.reads = <<>> /\ c.errors = <<>>
                /\ c.pc = "read" /\ ~c.read_batch
                     => c.written = <<[kind |-> "version", val |-> c.sub_version]>>
        /\ (exchanged /\ c.entry_remote = 0)
             => /\ Len(c.reads) >= 1 /\ c.reads[1].kind = "version"
                /\ ~c.read_batch
                     => /\ Len(c.written) >= 1
                        /\ c.written[1] = [kind |-> "version", val |-> c.sub_version]
        /\ c.pc \in {"check"} => c.errors = <<>>
        /\ (c.pc = "exit" /\ c.errors[1].text
                \in {"--max-delete=0", "--acls", "--xattrs", "--fuzzy",
                     "dest_option with --inplace",
                     "Using more than one dest_option option",
                     "--prune-empty-dirs"})
             => VersionsAccepted(p)
        /\ c.pc \in PastVersionChecks => VersionsAccepted(p) /\ c.errors = <<>>
        /\ c.filter_list # <<>> => c.pc \in {"seed", "done"} /\ ~GateViolated(p)
        /\ c.pc # "done" => /\ begun => c.checksum_seed = c.entry_seed
                            /\ OfKind(c.written, "seed") = <<>>
                            /\ OfKind(c.reads, "seed") = <<>>
        /\ c.pc = "done" => /\ Len(c.written) + Len(c.reads) >= 1
                            /\ IF c.am_server
                               THEN c.written[Len(c.written)].kind = "seed"
                               ELSE c.reads[Len(c.reads)].kind = "seed"

C12_Witness ==
    \E p \in Procs :
        /\ proc[p].pc = "done"
        /\ proc[p].am_sender /\ proc[p].preserve_xattrs
        /\ proc[p].xattrs_ndx = 3
        /\ proc[p].filter_list # <<>>
        /\ proc[p].am_server
        /\ Len(proc[p].reads) = 1 /\ Len(proc[p].written) = 2

\* C13 as claimed: our_sub is 0 when check_sub_protocol() starts with
\* protocol_version at PROTOCOL_VERSION, and the nonzero constant when it
\* starts below it.
C13_Claimed ==
    \A p \in Procs :
        RanCheckSubProtocol(p) =>
            /\ proc[p].entry_version = PROTOCOL_VERSION => proc[p].our_sub = 0
            /\ proc[p].entry_version < PROTOCOL_VERSION
                 => proc[p].our_sub = SUBPROTOCOL_VERSION /\ proc[p].our_sub # 0

\* C13 as amended: our_sub is 0 when check_sub_protocol() starts with
\* protocol_version below PROTOCOL_VERSION, and SUBPROTOCOL_VERSION, here
\* nonzero, when it starts at PROTOCOL_VERSION or above.
C13_OurSub ==
    \A p \in Procs :
        RanCheckSubProtocol(p) =>
            /\ proc[p].entry_version < PROTOCOL_VERSION => proc[p].our_sub = 0
            /\ proc[p].entry_version >= PROTOCOL_VERSION
                 => proc[p].our_sub = SUBPROTOCOL_VERSION /\ proc[p].our_sub # 0

C13_Witness ==
    \E p \in Procs :
        /\ RanCheckSubProtocol(p)
        /\ proc[p].entry_version = PROTOCOL_VERSION
        /\ proc[p].our_sub = SUBPROTOCOL_VERSION
        /\ proc[p].shell_cmd = Str(<<"3", "0", ".", "3">>)
        /\ proc[p].sub_version = PROTOCOL_VERSION

\* The two integers that lines 73-75 parse out of a hint with a dot.
HintMajor(h) == Atoi(h.chars)

HintSub(h) == Atoi(After(h.chars, Strchr(h.chars, ".")))

HasDot(h) == ~h.isnull /\ \E i \in 1..Len(h.chars) : h.chars[i] = "."

\* A hint of the form MAJOR.SUB, digits only on both sides of one dot.
DigitsOnly(s) == s # <<>> /\ \A i \in 1..Len(s) : s[i] \in Digits

WellFormedHint(h) ==
    /\ HasDot(h)
    /\ DigitsOnly(SubSeq(h.chars, 1, Strchr(h.chars, ".") - 1))
    /\ DigitsOnly(After(h.chars, Strchr(h.chars, ".")))

\* C14 as claimed: with a well-formed hint whose major is positive and below
\* protocol_version, check_sub_protocol() sets protocol_version to the
\* major minus 1 when the hint's sub is nonzero and leaves it unchanged when
\* the hint's sub is zero.
C14_Claimed ==
    \A p \in Procs :
        LET h == proc[p].shell_cmd IN
        (/\ RanCheckSubProtocol(p) /\ WellFormedHint(h)
         /\ HintMajor(h) > 0 /\ HintMajor(h) < proc[p].entry_version) =>
            proc[p].sub_version = IF HintSub(h) # 0
                                  THEN HintMajor(h) - 1
                                  ELSE proc[p].entry_version

\* C14 as amended: with a hint whose major is nonzero and below
\* protocol_version, check_sub_protocol() sets protocol_version to the major
\* minus 1 when the hint's sub is nonzero; when the hint's sub is zero the
\* hint counts as unusable (line 75) and protocol_version is decreased by 1
\* if our_sub is nonzero and left unchanged if our_sub is 0.
C14_PeerBehind ==
    \A p \in Procs :
        LET h == proc[p].shell_cmd IN
        (/\ RanCheckSubProtocol(p) /\ HasDot(h)
         /\ HintMajor(h) # 0 /\ HintMajor(h) < proc[p].entry_version) =>
            proc[p].sub_version =
                IF HintSub(h) # 0 THEN HintMajor(h) - 1
                ELSE IF proc[p].our_sub # 0 THEN proc[p].entry_version - 1
                ELSE proc[p].entry_version

C14_Witness ==
    \E p \in Procs :
        /\ RanCheckSubProtocol(p)
        /\ proc[p].shell_cmd = Str(<<"2", "3", ".", "2">>)
        /\ proc[p].entry_version = PROTOCOL_VERSION
        /\ proc[p].sub_version = 22

\* C15: with a hint whose major is at or above protocol_version,
\* check_sub_protocol() decreases protocol_version by exactly 1 when the
\* effective peer sub (0 for a major above protocol_version, the hint's sub
\* for an equal major) differs from our_sub, and leaves it unchanged
\* otherwise.
C15_SubSkew ==
    \A p \in Procs :
        LET h == proc[p].shell_cmd
            their_sub == IF HintMajor(h) > proc[p].entry_version
                         THEN 0 ELSE HintSub(h)
        IN
        (/\ RanCheckSubProtocol(p) /\ HasDot(h)
         /\ HintMajor(h) >= proc[p].entry_version) =>
            /\ proc[p].sub_version = proc[p].entry_version - 1
                 <=> their_sub # proc[p].our_sub
            /\ proc[p].sub_version = proc[p].entry_version
                 <=> their_sub = proc[p].our_sub

C15_Witness ==
    \E p \in Procs :
        /\ RanCheckSubProtocol(p)
        /\ proc[p].shell_cmd = Str(<<"3", "0", ".", "2">>)
        /\ proc[p].entry_version = PROTOCOL_VERSION
        /\ proc[p].our_sub = SUBPROTOCOL_VERSION
        /\ proc[p].sub_version = PROTOCOL_VERSION - 1

\* C16: a client, and either side of a loopback session, reaches the version
\* write with the protocol_version it entered with, whatever the hint, and
\* what it writes is that value; only a server of a remote peer can have its
\* protocol_version changed before the write.
C16_ResolutionOnlyOnRemoteServer ==
    \A p \in Procs :
        LET c == proc[p] IN
        c.pc \notin {"off", "start", "negotiate"} =>
            /\ (~c.am_server \/ c.local_server) =>
                   /\ c.sub_version = c.entry_version
                   /\ \A i \in 1..Len(c.written) :
                          c.written[i].kind = "version"
                              => c.written[i].val = c.entry_version
                   /\ (c.pc # "write" /\ c.entry_remote = 0 /\ ~c.read_batch)
                          => OfKind(c.written, "version")
                                 = <<[kind |-> "version", val |-> c.entry_version]>>
            /\ c.sub_version # c.entry_version
                   => c.am_server /\ ~c.local_server /\ c.entry_remote = 0

C16_Witness ==
    \E p \in Procs :
        /\ proc[p].pc = "read"
        /\ proc[p].am_server /\ proc[p].local_server
        /\ proc[p].shell_cmd = Str(<<"2", "3", ".", "2">>)
        /\ proc[p].entry_version = PROTOCOL_VERSION
        /\ proc[p].written = <<[kind |-> "version", val |-> PROTOCOL_VERSION]>>

\* The rule that lines 221-224 hand to parse_rule() in process p.
PartialDirRule(p) ==
    [pattern |-> proc[p].partial_dir.chars,
     flags |-> {MATCHFLG_NO_PREFIXES, MATCHFLG_DIRECTORY}
               \cup (IF ~proc[p].am_sender \/ proc[p].protocol_version >= 30
                     THEN {MATCHFLG_PERISHABLE} ELSE {})]

\* C17 as claimed: past lines 220-225 the filter list holds one rule for
\* partial_dir, flagged as above, exactly when partial_dir is set, is not
\* empty, does not start with '/' and the process is not a server or is a
\* loopback server; it holds no rule otherwise, and no error was raised.
C17_Claimed ==
    \A p \in Procs :
        LET c == proc[p] IN
        /\ c.pc \in {"seed", "done"} =>
               /\ c.filter_list =
                      IF /\ ~c.partial_dir.isnull
                         /\ c.partial_dir.chars # <<>>
                         /\ Head(c.partial_dir.chars) # "/"
                         /\ (~c.am_server \/ c.local_server)
                      THEN <<PartialDirRule(p)>> ELSE <<>>
               /\ c.errors = <<>>
        /\ c.pc \notin {"seed", "done"} => c.filter_list = <<>>

\* C17 as amended: the same with no test for an empty partial_dir: an
\* empty string does not start with '/', and is handed to parse_rule().
C17_PartialDirRule ==
    \A p \in Procs :
        LET c == proc[p] IN
        /\ c.pc \in {"seed", "done"} =>
               /\ c.filter_list =
                      IF /\ ~c.partial_dir.isnull
                         /\ (c.partial_dir.chars = <<>>
                             \/ Head(c.partial_dir.chars) # "/")
                         /\ (~c.am_server \/ c.local_server)
                      THEN <<PartialDirRule(p)>> ELSE <<>>
               /\ c.errors = <<>>
        /\ c.pc \notin {"seed", "done"} => c.filter_list = <<>>

C17_Witness ==
    \E p \in Procs :
        /\ proc[p].pc = "done"
        /\ proc[p].am_sender /\ ~proc[p].am_server
        /\ proc[p].protocol_version = 29
        /\ proc[p].filter_list
               = <<[pattern |-> <<"p">>,
                    flags |-> {MATCHFLG_NO_PREFIXES, MATCHFLG_DIRECTORY}]>>

\* Whether process p is past the read of line 113.
PastVersionRead(p) ==
    proc[p].pc \notin {"off", "start", "negotiate", "write", "read"}

\* C18: in a live session of a server and a client, the remote_protocol of
\* each side is the one version the other side wrote, which for the server
\* is its protocol_version after check_sub_protocol(); and two sides that
\* have both completed hold the same protocol_version.
C18_PeersAgree ==
    \A s, c \in Procs :
        (IsServer(s) /\ IsClient(c)) =>
            /\ PastVersionRead(s) =>
                   /\ OfKind(proc[c].written, "version")
                          = <<[kind |-> "version", val |-> proc[s].remote_protocol]>>
                   /\ proc[s].remote_protocol = proc[c].entry_version
            /\ PastVersionRead(c) =>
                   /\ OfKind(proc[s].written, "version")
                          = <<[kind |-> "version", val |-> proc[c].remote_protocol]>>
                   /\ proc[c].remote_protocol = proc[s].sub_version
            /\ (proc[s].pc = "done" /\ proc[c].pc = "done") =>
                   /\ proc[s].protocol_version = proc[c].protocol_version
                   /\ proc[s].protocol_version
                          = Min(proc[s].sub_version, proc[c].entry_version)

C18_Witness ==
    \E s, c \in Procs :
        /\ IsServer(s) /\ IsClient(c)
        /\ proc[s].pc = "done" /\ proc[c].pc = "done"
        /\ ~proc[s].local_server
        /\ proc[s].entry_version = PROTOCOL_VERSION
        /\ proc[c].entry_version = PROTOCOL_VERSION
        /\ proc[s].sub_version = PROTOCOL_VERSION - 1
        /\ proc[c].remote_protocol = PROTOCOL_VERSION - 1
        /\ proc[c].protocol_version = PROTOCOL_VERSION - 1

(***************************************************************************)
(* The session under fair scheduling: a process that can take a step       *)
(* (it is not blocked in read_int() on an empty queue) eventually does.    *)
(***************************************************************************)
Moves(p) == Next /\ proc'[p] # proc[p]

SpecSessionFair == InitSession /\ [][Next]_vars /\ \A p \in Procs : WF_vars(Moves(p))

\* C19: each side has written its version by the time it reads, and both
\* sides eventually get past the read of the peer's version.
C19_VersionReadsReturn ==
    /\ [](\A p \in Procs :
              proc[p].pc = "read" => OfKind(proc[p].written, "version") # <<>>)
    /\ <>(\A p \in Procs : PastVersionRead(p))

C19_Witness ==
    /\ \A p \in Procs :
           /\ PastVersionRead(p)
           /\ OfKind(proc[p].reads, "version")
                  = <<[kind |-> "version", val |-> proc[p].remote_protocol]>>
    /\ \E p \in Procs : proc[p].pc = "check"
    /\ \E p \in Procs : proc[p].pc = "done"

\* C20: a process that ended in exit_cleanup(RERR_PROTOCOL) has written no
\* seed, read no seed, kept the checksum_seed it entered with and registered
\* no rule for partial_dir; a seed is exchanged or a rule registered only in
\* a process in which no check has failed.
C20_FatalExitLeavesNoSeedNoRule ==
    \A p \in Procs :
        LET c == proc[p] IN
        /\ (c.pc = "exit" \/ c.errors # <<>>) =>
               /\ c.pc = "exit" /\ c.exit_code = RERR_PROTOCOL
               /\ Len(c.errors) = 1
               /\ OfKind(c.written, "seed") = <<>>
               /\ OfKind(c.reads, "seed") = <<>>
               /\ c.checksum_seed = c.entry_seed
               /\ c.filter_list = <<>>
        /\ (\/ OfKind(c.written, "seed") # <<>>
            \/ OfKind(c.reads, "seed") # <<>>
            \/ c.filter_list # <<>>) =>
               /\ c.errors = <<>>
               /\ VersionsAccepted(p) /\ ~GateViolated(p)

C20_Witness ==
    \E p \in Procs :
        /\ proc[p].pc = "exit"
        /\ proc[p].errors[1].text = "--prune-empty-dirs"
        /\ ~proc[p].am_server
        /\ proc[p].partial_dir = Str(<<"p">>)
        /\ proc[p].entry_seed = 9

====
